---- MODULE Spec2Model ----
(***************************************************************************)
(* FairForm: the submission pipeline of server.js (POST /api/submit).      *)
(*                                                                         *)
(* Each request runs the handler as an asynchronous task: getToken,        *)
(* createResponseFolder, uploadGroup x3, appendRow (column fetch, then     *)
(* add-rows), applyMailConditionFormulaToLastRow (column fetch, data body  *)
(* range fetch, range-patch with one locale retry), then the response.     *)
(* Every awaited external call is one action: the remote effect and the    *)
(* continuation up to the next await happen in that step.  The drive and   *)
(* the workbook table are the remote state; other actors edit the table's  *)
(* columns between any two steps.                                          *)
(***************************************************************************)
EXTENDS Integers, Sequences, FiniteSets, TLC

VARIABLES
  pc,          \* per request: the await the handler is suspended at
  req,         \* per request: the parsed multipart input (req.body, req.files)
  readableId,  \* per request: const readableId
  folder,      \* per request: const folder (resp.data of the create call)
  gi,          \* per request: which uploadGroup call is running (1..3, 4 = all done)
  counts,      \* per request: <<vcCount, bpCount, ctCount>> (count of the running group)
  colNames,    \* per request: appendRow's colNames
  rowValues,   \* per request: appendRow's rowValues
  idxMail,     \* per request: the patcher's idxMail (0-based, -1 = none)
  target,      \* per request: the patcher's targetCell as [letters, row]
  status,      \* per request: HTTP status of the response (0 = none yet)
  responses,   \* per request: number of responses sent
  resBody,     \* per request: the JSON body of the response
  log,         \* per request: the external calls made so far, in order
  tableCols,   \* remote table: ordered column headers
  tableRows,   \* remote table: data rows, in table order
  folders,     \* remote drive: created folders, by id
  patches,     \* remote sheet: formula writes accepted so far
  edits,       \* number of column edits made by other actors
  fnIn,        \* input of the pure function under check
  fnOut        \* its result

vars == <<pc, req, readableId, folder, gi, counts, colNames, rowValues, idxMail,
          target, status, responses, resBody, log, tableCols, tableRows, folders, patches,
          edits, fnIn, fnOut>>

reqVars == <<pc, req, readableId, folder, gi, counts, colNames, rowValues, idxMail,
             target, status, responses, resBody, log>>

remoteVars == <<tableCols, tableRows, folders, patches, edits>>

fnVars == <<fnIn, fnOut>>

-----------------------------------------------------------------------------
(* Bounds of the model *)

\* concurrently in-flight submissions
NumReqs == 2

\* files of a submission when several submissions run concurrently
MaxConcFiles == 1

\* files of a submission that runs alone
MaxSoloFiles == 3

\* files of a submission when the file names vary
MaxNamedFiles == 2

\* column edits made to the table by other actors
MaxEdits == 1

\* length of the column lists the row mapper is checked on
MaxCols == 3

\* length of the labels the folder namer is checked on: every label up to
\* ShortLabelLen characters, and long ones up to MaxLabelLen
ShortLabelLen == 3

\* the column numbers the column-letter helpers are checked on: beyond ZZ
\* (702), into three-letter columns
MaxColumn == 730

MaxLabelLen == 62

Reqs == 1..NumReqs

-----------------------------------------------------------------------------
(* Characters and strings.  A JavaScript string that the code inspects or *)
(* builds (file name, label, form value, cell value, identifier) is a text: *)
(* a sequence of one-character strings, '' being <<>>.  Column headers and *)
(* record keys, which the code only compares, are TLA+ strings.            *)

LowerLetters == <<"a", "b", "c", "d", "e", "f", "g", "h", "i", "j", "k", "l", "m",
                  "n", "o", "p", "q", "r", "s", "t", "u", "v", "w", "x", "y", "z">>

UpperLetters == <<"A", "B", "C", "D", "E", "F", "G", "H", "I", "J", "K", "L", "M",
                  "N", "O", "P", "Q", "R", "S", "T", "U", "V", "W", "X", "Y", "Z">>

Range(f) == {f[k] : k \in DOMAIN f}

Digits == {"0", "1", "2", "3", "4", "5", "6", "7", "8", "9"}

\* the regular expression class \w
WordChars == Range(LowerLetters) \cup Range(UpperLetters) \cup Digits \cup {"_"}

\* the regular expression class \s, on the characters of the model
WhiteSpace == {" ", "\t"}

MapSeq(Op(_), s) == [k \in 1..Len(s) |-> Op(s[k])]

\* String.prototype.toLowerCase, per character
LowerChar(c) ==
  IF c \in Range(UpperLetters)
  THEN LowerLetters[CHOOSE k \in 1..26 : UpperLetters[k] = c]
  ELSE c

ToLowerCase(s) == MapSeq(LowerChar, s)

\* String.prototype.toUpperCase, per character
UpperChar(c) ==
  IF c \in Range(LowerLetters)
  THEN UpperLetters[CHOOSE k \in 1..26 : LowerLetters[k] = c]
  ELSE c

ToUpperCase(s) == MapSeq(UpperChar, s)

\* String.prototype.trim
RECURSIVE TrimStart(_)
TrimStart(s) ==
  IF s # <<>> /\ Head(s) \in WhiteSpace THEN TrimStart(Tail(s)) ELSE s

RECURSIVE TrimEnd(_)
TrimEnd(s) ==
  IF s # <<>> /\ s[Len(s)] \in WhiteSpace THEN TrimEnd(SubSeq(s, 1, Len(s) - 1)) ELSE s

Trim(s) == TrimEnd(TrimStart(s))

\* String.prototype.slice(0, n)
Slice0(s, n) == SubSeq(s, 1, IF Len(s) < n THEN Len(s) ELSE n)

\* String(n) for a non-negative integer
DigitChar(d) ==
  CASE d = 0 -> "0" [] d = 1 -> "1" [] d = 2 -> "2" [] d = 3 -> "3" [] d = 4 -> "4"
    [] d = 5 -> "5" [] d = 6 -> "6" [] d = 7 -> "7" [] d = 8 -> "8" [] d = 9 -> "9"

RECURSIVE NumberToString(_)
NumberToString(n) ==
  IF n < 10 THEN <<DigitChar(n)>>
  ELSE Append(NumberToString(n \div 10), DigitChar(n % 10))

\* Array.prototype.join(', ') on an array of strings
RECURSIVE JoinComma(_)
JoinComma(a) ==
  IF a = <<>> THEN <<>>
  ELSE IF Len(a) = 1 THEN a[1]
  ELSE a[1] \o <<",", " ">> \o JoinComma(Tail(a))

-----------------------------------------------------------------------------
(* JavaScript values held by a form field or a record field *)

Str(s) == [k |-> "str", s |-> s, n |-> 0, a |-> <<>>]

Num(n) == [k |-> "num", s |-> <<>>, n |-> n, a |-> <<>>]

Arr(a) == [k |-> "arr", s |-> <<>>, n |-> 0, a |-> a]

Undefined == [k |-> "undef", s |-> <<>>, n |-> 0, a |-> <<>>]

\* x || '' : the empty string replaces a falsy value
OrEmpty(v) ==
  IF v.k = "undef" \/ (v.k = "str" /\ v.s = <<>>) \/ (v.k = "num" /\ v.n = 0)
  THEN Str(<<>>) ELSE v

\* obj[key] of a plain object: undefined when the key is absent
Get(obj, key) == IF key \in DOMAIN obj THEN obj[key] ELSE Undefined

-----------------------------------------------------------------------------
(* GlobalBaseContact -> email resolver *)

\* .replace(/^\s*mr\s+/, '')
DropLeadingMr(s) ==
  LET t == TrimStart(s) IN
    IF Len(t) >= 3 /\ t[1] = "m" /\ t[2] = "r" /\ t[3] \in WhiteSpace
    THEN TrimStart(SubSeq(t, 3, Len(t)))
    ELSE s

normalizeName(s) ==
  Trim(DropLeadingMr(SelectSeq(ToLowerCase(s), LAMBDA c : c # ".")))

EmailDomain == <<"@", "g", "l", "o", "b", "a", "l", "b", "a", "s", "e", "s", "o", "u", "r", "c", "i", "n", "g", ".", "c", "o", "m">>

\* the object literal `map` of getGbEmail
GbMap ==
  (<<"a", "m", "j", "a", "d", " ", "a", "b", "b", "a", "s">> :> <<"a", "m", "j", "a", "d">> \o EmailDomain) @@
  (<<"a", "z", "h", "a", "r", " ", "a", "b", "b", "a", "s">> :> <<"a", "z", "h", "a", "r">> \o EmailDomain) @@
  (<<"t", "e", "d">> :> <<"t", "e", "d">> \o EmailDomain) @@
  (<<"c", "l", "a", "r", "k">> :> <<"p", "u", "r", "c", "h", "a", "s", "e", "5">> \o EmailDomain) @@
  (<<"o", "s", "c", "a", "r">> :> <<"p", "u", "r", "c", "h", "a", "s", "e", "1">> \o EmailDomain) @@
  (<<"j", "a", "c", "k">> :> <<"p", "u", "r", "c", "h", "a", "s", "e", "2">> \o EmailDomain) @@
  (<<"z", "h", "o", "n", "g">> :> <<"p", "u", "r", "c", "h", "a", "s", "e", "4">> \o EmailDomain)

\* map[n] also finds what a plain object inherits: the all-lower-case
\* properties of Object.prototype are truthy and are not strings
InheritedKeys == {<<"c", "o", "n", "s", "t", "r", "u", "c", "t", "o", "r">>, <<"_", "_", "p", "r", "o", "t", "o", "_", "_">>}

\* map[key] || undefined, as a JavaScript value
GbLookup(key) ==
  IF key \in DOMAIN GbMap THEN Str(GbMap[key])
  ELSE IF key \in InheritedKeys THEN [k |-> "obj", s |-> key, n |-> 0, a |-> <<>>]
  ELSE Undefined

\* n.split(/\s+/)[0]
RECURSIVE FirstToken(_)
FirstToken(s) ==
  IF s = <<>> \/ Head(s) \in WhiteSpace THEN <<>>
  ELSE <<Head(s)>> \o FirstToken(Tail(s))

getGbEmail(displayName) ==
  LET n == normalizeName(displayName) IN
    IF GbLookup(n).k # "undef" THEN GbLookup(n)
    ELSE OrEmpty(GbLookup(FirstToken(n)))

\* String(v) of a value that is neither undefined nor an array
ObjectString(v) ==
  IF v.s = <<"c", "o", "n", "s", "t", "r", "u", "c", "t", "o", "r">>
  THEN <<"f", "u", "n", "c", "t", "i", "o", "n", " ", "O", "b", "j", "e", "c", "t", "(", ")", " ", "{", " ", "[", "n", "a", "t", "i", "v", "e", " ", "c", "o", "d", "e", "]", " ", "}">>
  ELSE <<"[", "o", "b", "j", "e", "c", "t", " ", "O", "b", "j", "e", "c", "t", "]">>

-----------------------------------------------------------------------------
(* Row Mapper: the pure part of appendRow *)

Headers27 ==
  {"ID", "FairName", "CompanyName", "ContactPerson", "ContactEmail", "MobileNumber",
   "Designation", "KeyProductCategory", "CompanyType", "Materials", "FullAddress",
   "CompanyLocation", "City", "Country", "ProvinceState", "NearestAirport",
   "NearestTrain", "GlobalBaseContact", "GlobalBaseContactEmail",
   "VisitingCardCount", "BoothPhotoCount", "CatalogueCount", "Message",
   "FolderLink", "Timestamp", "Status Mail", "MailCondition"}

\* the object literal headerToRecordKey: every header maps to itself, but
\* 'Status Mail' maps to the internal key StatusMail
headerToRecordKey ==
  [h \in Headers27 |-> IF h = "Status Mail" THEN "StatusMail" ELSE h]

\* the callback of colNames.map
RowValueFalsy(h, record) ==
  LET val == IF h \in DOMAIN headerToRecordKey
             THEN Get(record, headerToRecordKey[h]) ELSE Str(<<>>)
  IN  IF val.k = "undef" \/ (val.k = "num" /\ val.n = 0) THEN <<>>
      ELSE IF val.k = "arr" THEN JoinComma(val.a)
      ELSE IF val.k = "num" THEN NumberToString(val.n)
      ELSE IF val.k = "obj" THEN ObjectString(val)
      ELSE val.s

RowValue(h, record) ==
  LET val == IF h \in DOMAIN headerToRecordKey
             THEN Get(record, headerToRecordKey[h]) ELSE Str(<<>>)
  IN  IF val.k = "undef" THEN <<>>
      ELSE IF val.k = "arr" THEN JoinComma(val.a)
      ELSE IF val.k = "num" THEN NumberToString(val.n)
      ELSE IF val.k = "obj" THEN ObjectString(val)
      ELSE val.s

\* rowValues = colNames.map(...)
BuildRowKnownOnly(cols, record) ==
  LET known == SelectSeq(cols, LAMBDA h : h \in DOMAIN headerToRecordKey)
  IN  [k \in 1..Len(known) |-> RowValue(known[k], record)]

BuildRow(cols, record) == [k \in 1..Len(cols) |-> RowValue(cols[k], record)]

-----------------------------------------------------------------------------
(* Resource Namer and Record Builder: the pure parts of the handler *)

\* new Date().toISOString().replace(/[-:.TZ]/g, '').slice(0, 14)
CompactTime(iso) ==
  Slice0(SelectSeq(iso, LAMBDA c : c \notin {"-", ":", ".", "T", "Z"}), 14)

\* uuidv4().slice(0, 6).toUpperCase()
UuidSuffix(uuid) == ToUpperCase(Slice0(uuid, 6))

\* 'FORM_' + <14-digit time> + '_' + <6 characters of a uuid, upper-cased>
MakeReadableId(ts, sfx) == <<"F", "O", "R", "M", "_">> \o ts \o <<"_">> \o sfx

\* .replace(/[^\w. ]/g, '_') of createResponseFolder, per character
SafeTailCharKeep(c) == c

SafeTailChar(c) == IF c \in WordChars \cup {".", " "} THEN c ELSE "_"

\* fairOrCompany may be undefined (or an array: not a string, .trim throws)
SafeTail(label) == Slice0(MapSeq(SafeTailChar, Trim(OrEmpty(label).s)), 60)

FolderNameAlways(id, label) == id \o <<"_">> \o SafeTail(label)

FolderName(id, label) ==
  IF SafeTail(label) # <<>> THEN id \o <<"_">> \o SafeTail(label) ELSE id

\* .replace(/[^\w.\- ]/g, '_') of uploadGroup, per character
SafeNameChar(c) == IF c \in WordChars \cup {".", "-", " "} THEN c ELSE "_"

SafeName(originalname) == MapSeq(SafeNameChar, originalname)

\* record key <- form field, for the fields copied with `|| ''`
CopiedFields ==
  [FairName |-> "fairName", CompanyName |-> "companyName",
   ContactPerson |-> "contactPerson", ContactEmail |-> "contactEmail",
   MobileNumber |-> "phoneFull", Designation |-> "designation",
   KeyProductCategory |-> "keyProductCategory", CompanyType |-> "companyType",
   Materials |-> "materials", FullAddress |-> "fullAddress",
   CompanyLocation |-> "companyLocation", City |-> "city", Country |-> "country",
   ProvinceState |-> "provinceState", NearestAirport |-> "nearestAirport",
   NearestTrain |-> "nearestTrain", GlobalBaseContact |-> "gbContact",
   Message |-> "message"]

\* getGbEmail(req.body.gbContact || '') throws a TypeError when the form
\* sent gbContact more than once (an array has no toLowerCase)
RecordThrows(body) == OrEmpty(Get(body, "gbContact")).k = "arr"

\* the object literal `record`
BuildRecordNoDefault(body, id, fold, cnt, now) ==
  [key \in DOMAIN CopiedFields \cup
           {"ID", "GlobalBaseContactEmail", "VisitingCardCount", "BoothPhotoCount",
            "CatalogueCount", "FolderLink", "Timestamp", "StatusMail", "MailCondition"}
    |-> CASE key = "ID" -> Str(id)
          [] key = "GlobalBaseContactEmail" ->
               getGbEmail(OrEmpty(Get(body, "gbContact")).s)
          [] key = "VisitingCardCount" -> Num(cnt[1])
          [] key = "BoothPhotoCount" -> Num(cnt[2])
          [] key = "CatalogueCount" -> Num(cnt[3])
          [] key = "FolderLink" -> fold.webUrl
          [] key = "Timestamp" -> Str(now)
          [] key = "StatusMail" -> Str(<<>>)
          [] key = "MailCondition" -> Str(<<>>)
          [] OTHER -> Get(body, CopiedFields[key])]

BuildRecord(body, id, fold, cnt, now) ==
  [key \in DOMAIN CopiedFields \cup
           {"ID", "GlobalBaseContactEmail", "VisitingCardCount", "BoothPhotoCount",
            "CatalogueCount", "FolderLink", "Timestamp", "StatusMail", "MailCondition"}
    |-> CASE key = "ID" -> Str(id)
          [] key = "GlobalBaseContactEmail" ->
               getGbEmail(OrEmpty(Get(body, "gbContact")).s)
          [] key = "VisitingCardCount" -> Num(cnt[1])
          [] key = "BoothPhotoCount" -> Num(cnt[2])
          [] key = "CatalogueCount" -> Num(cnt[3])
          [] key = "FolderLink" -> fold.webUrl
          [] key = "Timestamp" -> Str(now)
          [] key = "StatusMail" -> Str(<<>>)
          [] key = "MailCondition" -> Str(<<>>)
          [] OTHER -> OrEmpty(Get(body, CopiedFields[key]))]

-----------------------------------------------------------------------------
(* The remote service: the drive and the workbook table *)

\* the worksheet column of the table's first column, and its header's row
TableFirstCol == 25

TableHeaderRow == 1

SheetName == <<"S", "h", "e", "e", "t", "1">>

\* the columns of the table when the server starts
InitCols == <<"ID", "VisitingCardCount", "FolderLink", "MailCondition">>

\* a header other actors add: the Header-to-Field Mapping does not know it
ExtraHeaders == {"Notes"}

\* rows the table holds before the first submission
InitRowCount == 1

\* column letters <-> column number, as the workbook resolves an address
RECURSIVE A1ColumnNumber(_)
A1ColumnNumber(letters) ==
  IF letters = <<>> THEN 0
  ELSE 26 * A1ColumnNumber(SubSeq(letters, 1, Len(letters) - 1))
       + (CHOOSE k \in 1..26 : UpperLetters[k] = letters[Len(letters)])

A1Letters ==
  {<<UpperLetters[k]>> : k \in 1..26} \cup
  {<<UpperLetters[j], UpperLetters[k]>> : j \in 1..2, k \in 1..26}

A1Column(n) == CHOOSE letters \in A1Letters : A1ColumnNumber(letters) = n

\* the `address` of a range, as the workbook reports it
RangeAddress(c1, r1, c2, r2) ==
  SheetName \o <<"!">> \o A1Column(c1) \o NumberToString(r1) \o
  (IF c1 = c2 /\ r1 = r2 THEN <<>>
   ELSE <<":">> \o A1Column(c2) \o NumberToString(r2))

\* GET .../tables/{name}/dataBodyRange
DataBodyRange(cols, rows) ==
  [address |-> RangeAddress(TableFirstCol, TableHeaderRow + 1,
                            TableFirstCol + Len(cols) - 1,
                            TableHeaderRow + Len(rows)),
   rowCount |-> Len(rows),
   columnCount |-> Len(cols)]

\* what the service can answer to GET .../dataBodyRange: the range of the
\* table, or a body without address, without rows or without columns
BodyAnswers(cols, rows) ==
  {DataBodyRange(cols, rows),
   [DataBodyRange(cols, rows) EXCEPT !.address = <<>>],
   [DataBodyRange(cols, rows) EXCEPT !.rowCount = 0],
   [DataBodyRange(cols, rows) EXCEPT !.columnCount = 0]}

\* POST .../children: the drive item of a new folder
NewFolder(id, name, by) ==
  [id |-> id, name |-> name, by |-> by, files |-> {},
   webUrl |-> Str(<<"h", "t", "t", "p", "s", ":", "/", "/", "d", "r", "i", "v", "e", "/">> \o NumberToString(id))]

NoFolder == [id |-> 0, name |-> <<>>, by |-> 0, files |-> {}, webUrl |-> Undefined]

\* a column inserted by another actor gets an empty cell in every row
InsertAt(s, pos, x) == SubSeq(s, 1, pos - 1) \o <<x>> \o SubSeq(s, pos, Len(s))

RemoveAt(s, pos) == SubSeq(s, 1, pos - 1) \o SubSeq(s, pos + 1, Len(s))

-----------------------------------------------------------------------------
(* Inputs *)

IsoTime == <<"2", "0", "2", "6", "-", "1", "1", "-", "0", "2", "T", "1", "2", ":", "0", "0", ":", "0", "0", ".", "0", "0", "0", "Z">>

\* values of uuidv4(): random, so two calls may agree on their first 6
\* characters
Uuids ==
  {<<"1", "a", "2", "b", "3", "c", "9", "9", "-", "0", "f", "1", "e", "-", "4", "d", "2", "c", "-", "b", "3", "a", "4", "-", "9", "5", "8", "6", "7", "7", "6", "9", "5", "a", "4", "b">>,
   <<"1", "a", "2", "b", "3", "c", "4", "d", "-", "5", "e", "6", "f", "-", "4", "a", "7", "b", "-", "8", "c", "9", "d", "-", "0", "e", "1", "f", "2", "a", "3", "b", "4", "c", "5", "d">>,
   <<"4", "d", "5", "e", "6", "f", "7", "0", "-", "8", "1", "9", "2", "-", "4", "a", "3", "b", "-", "9", "c", "4", "d", "-", "5", "e", "6", "f", "7", "0", "8", "1", "9", "2", "a", "3">>}

\* the time part and the suffix part an identifier can get
Timestamps == {CompactTime(IsoTime)}

Suffixes == {UuidSuffix(u) : u \in Uuids}

\* req.body: a field sent once is a string, a field sent twice an array
SampleBodies ==
  {[message |-> Str(<<>>)],
   [companyName |-> Str(<<"A", "c", "m", "e", " ", "C", "o", "r", "p">>), gbContact |-> Str(<<"M", "r", ".", " ", "T", "e", "d">>)],
   [companyName |-> Str(<<"A", "c", "m", "e">>), gbContact |-> Arr(<<<<"T", "e", "d">>, <<"J", "a", "c", "k">>>>)],
   [companyName |-> Arr(<<<<"A", "c", "m", "e">>, <<"C", "o", "r", "p">>>>)]}

ConcBodies == {b \in SampleBodies : Get(b, "gbContact").k = "str"}

\* originalname of an uploaded file
FileNames == {<<"a", "#">>}

SeqsUpTo(S, n) == UNION {[1..k -> S] : k \in 0..n}

\* req.files as <<visitingCard, boothPhotos, catalogue>>, an absent group
\* being []: the forms that send at most n files in all
FileGroups(names, n) ==
  {f \in {<<a, b, c>> : a \in SeqsUpTo(names, n), b \in SeqsUpTo(names, n),
                        c \in SeqsUpTo(names, n)} :
     Len(f[1]) + Len(f[2]) + Len(f[3]) <= n}

\* the forms that send at most n files, all of them visiting cards
CardForms(names, n) == {<<a, <<>>, <<>>>> : a \in SeqsUpTo(names, n)}

NoReq == [body |-> [message |-> Str(<<>>)], files |-> <<<<>>, <<>>, <<>>>>]

-----------------------------------------------------------------------------
(* Formula Patcher: the pure parts of applyMailConditionFormulaToLastRow *)

\* (c.name || '').trim(), on the headers of the model
TrimHeader(h) == IF h = " MailCondition " THEN "MailCondition" ELSE h

\* cols.findIndex(c => (c.name || '').trim() === 'MailCondition'), zero-based
FindMailIndex(cols) ==
  LET hits == {k \in 1..Len(cols) : TrimHeader(cols[k]) = "MailCondition"}
  IN  IF hits = {} THEN -1
      ELSE (CHOOSE k \in hits : \A j \in hits : k <= j) - 1

\* s.split(ch)[0]
RECURSIVE SplitFirst(_, _)
SplitFirst(s, ch) ==
  IF s = <<>> \/ Head(s) = ch THEN <<>>
  ELSE <<Head(s)>> \o SplitFirst(Tail(s), ch)

\* s.split(ch)[1], for a string that holds ch
SplitSecond(s, ch) ==
  SplitFirst(SubSeq(s, Len(SplitFirst(s, ch)) + 2, Len(s)), ch)

\* s.match(/[class]+/)?.[0]: the first run of characters of the class
RECURSIVE FirstRun(_, _)
FirstRun(s, class) ==
  IF s = <<>> THEN <<>>
  ELSE IF Head(s) \in class
       THEN <<Head(s)>> \o
            (IF Len(s) > 1 /\ s[2] \in class THEN FirstRun(Tail(s), class) ELSE <<>>)
       ELSE FirstRun(Tail(s), class)

DigitValue(c) == CHOOSE d \in 0..9 : DigitChar(d) = c

\* parseInt(digits, 10)
RECURSIVE ParseInt(_)
ParseInt(ds) ==
  IF ds = <<>> THEN 0
  ELSE 10 * ParseInt(SubSeq(ds, 1, Len(ds) - 1)) + DigitValue(ds[Len(ds)])

\* ch.charCodeAt(0) - 64 of an upper-cased letter
LetterValue(c) ==
  CHOOSE k \in 1..26 : UpperLetters[k] = c \/ LowerLetters[k] = c

\* letters.toUpperCase().split('').reduce((sum, ch) => sum * 26 + ..., 0)
RECURSIVE colLettersToNumber(_)
colLettersToNumber(letters) ==
  IF letters = <<>> THEN 0
  ELSE colLettersToNumber(SubSeq(letters, 1, Len(letters) - 1)) * 26
       + LetterValue(letters[Len(letters)])

\* while (n > 0) { r = (n - 1) % 26; s = chr(65 + r) + s; n = floor((n - 1) / 26) }
RECURSIVE colNumberToLettersNaive(_)
colNumberToLettersNaive(n) ==
  IF n > 0
  THEN colNumberToLettersNaive(n \div 26) \o
       <<IF n % 26 = 0 THEN "Z" ELSE UpperLetters[n % 26]>>
  ELSE <<>>

RECURSIVE colNumberToLetters(_)
colNumberToLetters(n) ==
  IF n > 0
  THEN colNumberToLetters((n - 1) \div 26) \o <<UpperLetters[((n - 1) % 26) + 1]>>
  ELSE <<>>

\* steps c) to h): the cell of the MailCondition column in the last data row
TargetCellFirstRow(body, idx) ==
  LET rangeA1 == SplitSecond(body.address, "!")
      startCell == SplitFirst(rangeA1, ":")
      letters == FirstRun(startCell, Range(UpperLetters) \cup Range(LowerLetters))
      startColLetters == IF letters = <<>> THEN <<"A">> ELSE letters
      digits == FirstRun(startCell, Digits)
      startRowNumber == ParseInt(IF digits = <<>> THEN <<"2">> ELSE digits)
      targetColIndex == colLettersToNumber(startColLetters) + idx
  IN  [letters |-> colNumberToLetters(targetColIndex), row |-> startRowNumber]

TargetCell(body, idx) ==
  LET rangeA1 == SplitSecond(body.address, "!")
      startCell == SplitFirst(rangeA1, ":")
      letters == FirstRun(startCell, Range(UpperLetters) \cup Range(LowerLetters))
      startColLetters == IF letters = <<>> THEN <<"A">> ELSE letters
      digits == FirstRun(startCell, Digits)
      startRowNumber == ParseInt(IF digits = <<>> THEN <<"2">> ELSE digits)
      targetColIndex == colLettersToNumber(startColLetters) + idx
      targetRow == startRowNumber + body.rowCount - 1
  IN  [letters |-> colNumberToLetters(targetColIndex), row |-> targetRow]

NoTarget == [letters |-> <<>>, row |-> 0]

\* if (!fullAddr || !rowCount || !colCount) return
SkipsPatchNever(body) == FALSE

SkipsPatch(body) ==
  body.address = <<>> \/ body.rowCount = 0 \/ body.columnCount = 0

-----------------------------------------------------------------------------
(* The handler of POST /api/submit: control *)

Goto(r, label) ==
  /\ pc' = [pc EXCEPT ![r] = label]
  /\ UNCHANGED <<status, responses, resBody>>

\* no response sent yet
NoBody == [ok |-> FALSE, sent |-> FALSE]

\* { ok: false, error: errBody }
ErrorBody == [ok |-> FALSE, sent |-> TRUE]

\* { ok: true, id: readableId, folder: folder.webUrl, counts: {...} }
SuccessBodySwapped(r) ==
  [ok |-> TRUE, sent |-> TRUE, id |-> readableId[r], folder |-> folder[r].webUrl,
   counts |-> [visitingCard |-> counts[r][2], boothPhotos |-> counts[r][1],
               catalogue |-> counts[r][3]]]

SuccessBody(r) ==
  [ok |-> TRUE, sent |-> TRUE, id |-> readableId[r], folder |-> folder[r].webUrl,
   counts |-> [visitingCard |-> counts[r][1], boothPhotos |-> counts[r][2],
               catalogue |-> counts[r][3]]]

\* res.json(...) / res.status(code).json(...): the handler ends
RespondNothing(r, code) ==
  /\ pc' = [pc EXCEPT ![r] = "done"]
  /\ UNCHANGED <<status, responses, resBody>>

Respond(r, code) ==
  /\ pc' = [pc EXCEPT ![r] = "done"]
  /\ status' = [status EXCEPT ![r] = code]
  /\ responses' = [responses EXCEPT ![r] = @ + 1]
  /\ resBody' = [resBody EXCEPT ![r] = IF code = 200 THEN SuccessBody(r) ELSE ErrorBody]

\* the outer catch: res.status(500).json({ok: false, error})
FailNoStatus(r) == Respond(r, 200)

Fail(r) == Respond(r, 500)

\* getToken throws ('No access token returned', or the exchange rejects):
\* the outer catch
TokenFailedGoesOn(r) == Goto(r, "folder")

TokenFailed(r) == Fail(r)

\* a rejected upload propagates out of uploadGroup to the outer catch
UploadFailedRetry(r) == Goto(r, "upload")

UploadFailed(r) == Fail(r)

\* appendRow throws on an empty column list, and the rejected column fetch
\* propagates out of it: the outer catch
ColumnsFailedRetry(r) == Goto(r, "columns")

ColumnsFailed(r) == Fail(r)

\* a rejected rows/add propagates out of appendRow to the outer catch
AddRowsFailedIgnored(r) == Goto(r, "pColumns")

AddRowsFailed(r) == Fail(r)

\* the inner catch around the patcher warns and falls through to res.json
PatcherFailedFatal(r) == Respond(r, 500)

PatcherFailed(r) == Respond(r, 200)

\* the first range-patch was accepted: the patcher returns, then res.json
PatchAcceptedThenLocal(r) == Goto(r, "patchFormulasLocal")

PatchAccepted(r) == Respond(r, 200)

\* one external call, as the log keeps it: for an upload its group, file
\* index and folder; for add-rows the row's width and the table's; for the
\* column fetch and add-rows the count of column edits made before it; for
\* the data body range what the answer held (an address, rowCount,
\* columnCount)
Call(op, ok) ==
  [op |-> op, ok |-> ok, g |-> 0, i |-> 0, w |-> 0, live |-> 0, fid |-> 0,
   ver |-> 0, addr |-> FALSE, rows |-> 0, cols |-> 0]

Logged(r, entry) == log' = [log EXCEPT ![r] = Append(@, entry)]

\* the first group from g on that holds a file (the for loop of uploadGroup
\* makes no call for an empty group); 4 when the three calls have returned
RECURSIVE NextGroupSkipLast(_, _)
NextGroupSkipLast(files, g) ==
  IF g >= 3 THEN 4
  ELSE IF files[g] # <<>> THEN g
  ELSE NextGroupSkipLast(files, g + 1)

RECURSIVE NextGroup(_, _)
NextGroup(files, g) ==
  IF g > 3 THEN 4
  ELSE IF files[g] # <<>> THEN g
  ELSE NextGroup(files, g + 1)

\* the record of request r, built when its three uploadGroup calls returned
RecordOfShared(r) ==
  BuildRecord(req[r].body, readableId[1], folder[r], counts[r], IsoTime)

RecordOf(r) ==
  BuildRecord(req[r].body, readableId[r], folder[r], counts[r], IsoTime)

\* after the uploads: build the record, call appendRow
AfterUploads(r) ==
  IF RecordThrows(req[r].body) THEN Fail(r) ELSE Goto(r, "columns")

\* the folderId argument of the three uploadGroup calls: folder.id
UploadFolderIdLatest(r) == Len(folders)

UploadFolderId(r) == folder[r].id

\* createResponseFolder throws before its call when the label is an array
LabelThrows(body) == OrEmpty(Get(body, "companyName")).k = "arr"

-----------------------------------------------------------------------------
(* The handler of POST /api/submit: one action per awaited call *)

\* the request arrives, multer has parsed the form
Start(r, bodies, forms) ==
  /\ pc[r] = "idle"
  /\ \E b \in bodies, f \in forms :
       req' = [req EXCEPT ![r] = [body |-> b, files |-> f]]
  /\ Goto(r, "token")
  /\ UNCHANGED <<readableId, folder, gi, counts, colNames, rowValues, idxMail,
                 target, log>>
  /\ UNCHANGED remoteVars
  /\ UNCHANGED fnVars

\* const tk = await getToken(); then readableId is computed
GetToken(r) ==
  /\ pc[r] = "token"
  /\ \/ /\ Logged(r, Call("token", FALSE))
        /\ TokenFailed(r)
        /\ UNCHANGED readableId
     \/ /\ Logged(r, Call("token", TRUE))
        /\ \E ts \in Timestamps, sfx \in Suffixes :
             readableId' = [readableId EXCEPT ![r] = MakeReadableId(ts, sfx)]
        /\ IF LabelThrows(req[r].body) THEN Fail(r) ELSE Goto(r, "folder")
  /\ UNCHANGED <<req, folder, gi, counts, colNames, rowValues, idxMail, target>>
  /\ UNCHANGED remoteVars
  /\ UNCHANGED fnVars

\* const folder = await createResponseFolder(tk, readableId, req.body.companyName)
CreateFolder(r) ==
  /\ pc[r] = "folder"
  /\ \/ /\ Logged(r, Call("folder", FALSE))
        /\ Fail(r)
        /\ UNCHANGED <<folders, folder, gi>>
     \/ LET id == Len(folders) + 1
            wanted == FolderName(readableId[r], Get(req[r].body, "companyName"))
            \* conflictBehavior 'rename'
            name == IF \E k \in 1..Len(folders) : folders[k].name = wanted
                    THEN wanted \o <<" ", "1">> ELSE wanted
            created == NewFolder(id, name, r)
            g == NextGroup(req[r].files, 1)
        IN  /\ Logged(r, Call("folder", TRUE))
            /\ folders' = Append(folders, created)
            /\ folder' = [folder EXCEPT ![r] = created]
            /\ gi' = [gi EXCEPT ![r] = g]
            /\ IF g = 4 THEN AfterUploads(r) ELSE Goto(r, "upload")
  /\ UNCHANGED <<req, readableId, counts, colNames, rowValues, idxMail, target>>
  /\ UNCHANGED <<tableCols, tableRows, patches, edits>>
  /\ UNCHANGED fnVars

\* await graphPutBinary(pathUrl, ...) inside uploadGroup; count++
Upload(r) ==
  /\ pc[r] = "upload"
  /\ LET g == gi[r]
         i == counts[r][g] + 1
         f == req[r].files[g][i]
         fid == UploadFolderId(r)
     IN  \/ /\ Logged(r, [Call("upload", FALSE) EXCEPT !.g = g, !.i = i, !.fid = fid])
            /\ UploadFailed(r)
            /\ UNCHANGED <<folders, counts, gi>>
         \/ LET g2 == IF i = Len(req[r].files[g])
                      THEN NextGroup(req[r].files, g + 1) ELSE g
            IN  /\ Logged(r, [Call("upload", TRUE) EXCEPT !.g = g, !.i = i, !.fid = fid])
                /\ folders' = [folders EXCEPT ![fid].files = @ \cup {SafeName(f)}]
                /\ counts' = [counts EXCEPT ![r][g] = i]
                /\ gi' = [gi EXCEPT ![r] = g2]
                /\ IF g2 = 4 THEN AfterUploads(r) ELSE Goto(r, "upload")
  /\ UNCHANGED <<req, readableId, folder, colNames, rowValues, idxMail, target>>
  /\ UNCHANGED <<tableCols, tableRows, patches, edits>>
  /\ UNCHANGED fnVars

\* appendRow, first await: the column list; then the row is built
FetchColumns(r) ==
  /\ pc[r] = "columns"
  /\ \/ /\ Logged(r, Call("columns", FALSE))
        /\ ColumnsFailed(r)
        /\ UNCHANGED <<colNames, rowValues>>
     \/ /\ Logged(r, [Call("columns", TRUE) EXCEPT !.ver = edits])
        /\ colNames' = [colNames EXCEPT ![r] = tableCols]
        /\ rowValues' = [rowValues EXCEPT ![r] = BuildRow(tableCols, RecordOf(r))]
        /\ Goto(r, "addRows")
     \/ \* the answer carries no column: colNames is empty, appendRow throws
        /\ Logged(r, Call("columns", TRUE))
        /\ ColumnsFailed(r)
        /\ UNCHANGED <<colNames, rowValues>>
  /\ UNCHANGED <<req, readableId, folder, gi, counts, idxMail, target>>
  /\ UNCHANGED remoteVars
  /\ UNCHANGED fnVars

\* appendRow, second await: rows/add.  The workbook rejects a row whose
\* width is not the table's column count, and may reject any call.
AddRows(r) ==
  /\ pc[r] = "addRows"
  /\ LET w == Len(rowValues[r])
         live == Len(tableCols)
     IN  \/ /\ Logged(r, [Call("addRows", FALSE) EXCEPT !.w = w, !.live = live,
                                                     !.ver = edits])
            /\ AddRowsFailed(r)
            /\ UNCHANGED tableRows
         \/ /\ w = live
            /\ Logged(r, [Call("addRows", TRUE) EXCEPT !.w = w, !.live = live, !.ver = edits])
            /\ tableRows' = Append(tableRows,
                 [by |-> r, sent |-> rowValues[r], fetched |-> colNames[r],
                  cells |-> rowValues[r]])
            /\ Goto(r, "pColumns")
  /\ UNCHANGED <<req, readableId, folder, gi, counts, colNames, rowValues, idxMail,
                 target>>
  /\ UNCHANGED <<tableCols, folders, patches, edits>>
  /\ UNCHANGED fnVars

\* the workbook resolves range(address='<letters><row>') on the sheet; the
\* write is kept with the table row and the column header it landed on
PatchedCell(r) ==
  LET rowIdx == target[r].row - TableHeaderRow
      colIdx == A1ColumnNumber(target[r].letters) - TableFirstCol + 1
  IN  [by |-> r, row |-> target[r].row, col |-> A1ColumnNumber(target[r].letters),
       rowOwner |-> IF rowIdx \in 1..Len(tableRows) THEN tableRows[rowIdx].by ELSE 0,
       header |-> IF colIdx \in 1..Len(tableCols) THEN tableCols[colIdx] ELSE ""]

\* patcher a): the column list, to find MailCondition
PatchColumns(r) ==
  /\ pc[r] = "pColumns"
  /\ \/ /\ Logged(r, Call("pColumns", FALSE))
        /\ PatcherFailed(r)
        /\ UNCHANGED idxMail
     \/ /\ Logged(r, Call("pColumns", TRUE))
        /\ idxMail' = [idxMail EXCEPT ![r] = FindMailIndex(tableCols)]
        /\ IF FindMailIndex(tableCols) < 0
           THEN Respond(r, 200) ELSE Goto(r, "pBodyRange")
  /\ UNCHANGED <<req, readableId, folder, gi, counts, colNames, rowValues, target>>
  /\ UNCHANGED remoteVars
  /\ UNCHANGED fnVars

\* patcher b): the data body range; then the target cell is computed
PatchBodyRange(r) ==
  /\ pc[r] = "pBodyRange"
  /\ \/ /\ Logged(r, Call("pBodyRange", FALSE))
        /\ PatcherFailed(r)
        /\ UNCHANGED target
     \/ \E body \in BodyAnswers(tableCols, tableRows) :
          /\ Logged(r, [Call("pBodyRange", TRUE) EXCEPT
                          !.addr = body.address # <<>>, !.rows = body.rowCount,
                          !.cols = body.columnCount])
          /\ IF SkipsPatch(body)
             THEN /\ Respond(r, 200)
                  /\ UNCHANGED target
             ELSE /\ target' = [target EXCEPT ![r] = TargetCell(body, idxMail[r])]
                  /\ Goto(r, "patchFormulas")
  /\ UNCHANGED <<req, readableId, folder, gi, counts, colNames, rowValues, idxMail>>
  /\ UNCHANGED remoteVars
  /\ UNCHANGED fnVars

\* patcher i): PATCH { formulas: [[formula]] }
PatchFormulas(r) ==
  /\ pc[r] = "patchFormulas"
  /\ \/ /\ Logged(r, Call("patchFormulas", FALSE))
        /\ Goto(r, "patchFormulasLocal")
        /\ UNCHANGED patches
     \/ /\ Logged(r, Call("patchFormulas", TRUE))
        /\ patches' = patches \cup {PatchedCell(r)}
        /\ PatchAccepted(r)
  /\ UNCHANGED <<req, readableId, folder, gi, counts, colNames, rowValues, idxMail,
                 target>>
  /\ UNCHANGED <<tableCols, tableRows, folders, edits>>
  /\ UNCHANGED fnVars

\* the catch of i): PATCH { formulasLocal: [[formula]] }
PatchFormulasLocal(r) ==
  /\ pc[r] = "patchFormulasLocal"
  /\ \/ /\ Logged(r, Call("patchFormulasLocal", FALSE))
        /\ PatcherFailed(r)
        /\ UNCHANGED patches
     \/ /\ Logged(r, Call("patchFormulasLocal", TRUE))
        /\ patches' = patches \cup {PatchedCell(r)}
        /\ Respond(r, 200)
  /\ UNCHANGED <<req, readableId, folder, gi, counts, colNames, rowValues, idxMail,
                 target>>
  /\ UNCHANGED <<tableCols, tableRows, folders, edits>>
  /\ UNCHANGED fnVars

-----------------------------------------------------------------------------
(* Other actors edit the spreadsheet by hand *)

\* a column is added at the left or at the right of the table
InsertColumn ==
  /\ edits < MaxEdits
  /\ \E h \in ExtraHeaders, pos \in {1, Len(tableCols) + 1} :
       /\ tableCols' = InsertAt(tableCols, pos, h)
       /\ tableRows' = [k \in 1..Len(tableRows) |->
                          [tableRows[k] EXCEPT !.cells = InsertAt(@, pos, <<>>)]]
  /\ edits' = edits + 1
  /\ UNCHANGED <<folders, patches>>
  /\ UNCHANGED reqVars
  /\ UNCHANGED fnVars

\* the rightmost column is removed
DeleteColumn ==
  /\ edits < MaxEdits
  /\ Len(tableCols) > 1
  /\ \E pos \in {Len(tableCols)} :
       /\ tableCols' = RemoveAt(tableCols, pos)
       /\ tableRows' = [k \in 1..Len(tableRows) |->
                          [tableRows[k] EXCEPT !.cells = RemoveAt(@, pos)]]
  /\ edits' = edits + 1
  /\ UNCHANGED <<folders, patches>>
  /\ UNCHANGED reqVars
  /\ UNCHANGED fnVars

-----------------------------------------------------------------------------
(* Specifications *)

InitRequests ==
  /\ pc = [r \in Reqs |-> "idle"]
  /\ req = [r \in Reqs |-> NoReq]
  /\ readableId = [r \in Reqs |-> <<>>]
  /\ folder = [r \in Reqs |-> NoFolder]
  /\ gi = [r \in Reqs |-> 1]
  /\ counts = [r \in Reqs |-> <<0, 0, 0>>]
  /\ colNames = [r \in Reqs |-> <<>>]
  /\ rowValues = [r \in Reqs |-> <<>>]
  /\ idxMail = [r \in Reqs |-> -1]
  /\ target = [r \in Reqs |-> NoTarget]
  /\ status = [r \in Reqs |-> 0]
  /\ responses = [r \in Reqs |-> 0]
  /\ resBody = [r \in Reqs |-> NoBody]
  /\ log = [r \in Reqs |-> <<>>]

\* a row entered before the server started
OldRow(cols) ==
  [by |-> 0, sent |-> [k \in 1..Len(cols) |-> <<>>], fetched |-> cols,
   cells |-> [k \in 1..Len(cols) |-> <<>>]]

InitRemote ==
  /\ tableCols = InitCols
  /\ tableRows = [k \in 1..InitRowCount |-> OldRow(InitCols)]
  /\ folders = <<>>
  /\ patches = {}
  /\ edits = 0

InitFn ==
  /\ fnIn = <<>>
  /\ fnOut = <<>>

Init == InitRequests /\ InitRemote /\ InitFn

Step(r) ==
  \/ GetToken(r)
  \/ CreateFolder(r)
  \/ Upload(r)
  \/ FetchColumns(r)
  \/ AddRows(r)
  \/ PatchColumns(r)
  \/ PatchBodyRange(r)
  \/ PatchFormulas(r)
  \/ PatchFormulasLocal(r)

\* concurrent submissions, while other actors add columns to the table
Next ==
  \/ \E r \in Reqs : Start(r, ConcBodies, CardForms(FileNames, MaxConcFiles))
  \/ \E r \in Reqs : Step(r)
  \/ InsertColumn

Spec == Init /\ [][Next]_vars

\* one submission with larger file groups, while other actors add and
\* remove columns
NextSolo ==
  \/ Start(1, SampleBodies, FileGroups(FileNames, MaxSoloFiles))
  \/ Step(1)
  \/ InsertColumn
  \/ DeleteColumn

SpecSolo == Init /\ [][NextSolo]_vars

-----------------------------------------------------------------------------
(* Properties of one request's sequence of external calls *)

\* the call at position j of request r's log
CallAt(r, j) == log[r][j]

\* request r made an accepted call `op` before position j
OkBefore(r, op, j) ==
  \E k \in 1..(j - 1) : CallAt(r, k).op = op /\ CallAt(r, k).ok

\* request r's upload of file i of group g was accepted before position j
UploadedBefore(r, g, i, j) ==
  \E k \in 1..(j - 1) :
    /\ CallAt(r, k).op = "upload" /\ CallAt(r, k).ok
    /\ CallAt(r, k).g = g /\ CallAt(r, k).i = i

PatchOps == {"patchFormulas", "patchFormulasLocal"}

\* C1: within one request the token is acquired before the folder is
\* created, the folder is created before any upload, the uploads go group
\* by group (visitingCard, boothPhotos, catalogue) and file by file, every
\* file of the three groups is uploaded before the column list is fetched,
\* the column list is fetched before add-rows, and a range-patch is only
\* attempted after the add-rows call succeeded.
C1_CallOrder ==
  \A r \in Reqs : \A j \in 1..Len(log[r]) :
    LET c == CallAt(r, j) IN
      /\ c.op = "folder" => OkBefore(r, "token", j)
      /\ c.op = "upload" =>
           /\ OkBefore(r, "folder", j)
           /\ \A g \in 1..3 : \A i \in 1..Len(req[r].files[g]) :
                (g < c.g \/ (g = c.g /\ i < c.i)) => UploadedBefore(r, g, i, j)
      /\ c.op = "columns" =>
           \A g \in 1..3 : \A i \in 1..Len(req[r].files[g]) :
             UploadedBefore(r, g, i, j)
      /\ c.op = "addRows" => OkBefore(r, "columns", j)
      /\ c.op \in PatchOps => OkBefore(r, "addRows", j)

\* a request with a file in each group got as far as a range-patch
C1_Witness ==
  \E r \in Reqs :
    /\ \A g \in 1..3 : req[r].files[g] # <<>>
    /\ \E j \in 1..Len(log[r]) : CallAt(r, j).op = "patchFormulas"

FatalOps == {"token", "folder", "upload", "columns", "addRows"}

\* C2: when the token, folder, upload, column or add-rows call fails, it is
\* the request's last external call and the request answers 500, never 200.
C2_FatalFailureAborts ==
  \A r \in Reqs : \A j \in 1..Len(log[r]) :
    (CallAt(r, j).op \in FatalOps /\ ~CallAt(r, j).ok) =>
      /\ j = Len(log[r])
      /\ pc[r] = "done"
      /\ status[r] = 500

\* a request whose add-rows call was rejected, after uploads, answered 500
C2_Witness ==
  \E r \in Reqs :
    /\ Len(log[r]) > 0
    /\ CallAt(r, Len(log[r])).op = "addRows"
    /\ ~CallAt(r, Len(log[r])).ok
    /\ counts[r][1] > 0
    /\ status[r] = 500

\* C3: when the upload of file k of a group fails, exactly k-1 files of
\* that group were uploaded, no further upload is attempted (no later file
\* of the group, no file of a later group) and the request answers 500.
C3_UploadFailFast ==
  \A r \in Reqs : \A j \in 1..Len(log[r]) :
    LET c == CallAt(r, j) IN
      (c.op = "upload" /\ ~c.ok) =>
        /\ Cardinality({k \in 1..Len(log[r]) :
             /\ CallAt(r, k).op = "upload" /\ CallAt(r, k).ok
             /\ CallAt(r, k).g = c.g}) = c.i - 1
        /\ counts[r][c.g] = c.i - 1
        /\ \A k \in (j + 1)..Len(log[r]) : CallAt(r, k).op # "upload"
        /\ \A g \in (c.g + 1)..3 : counts[r][g] = 0
        /\ pc[r] = "done"
        /\ status[r] = 500

\* a group of 3 files whose 2nd upload failed: 1 file uploaded, no 3rd attempt
C3_Witness ==
  \E r \in Reqs : \E g \in 1..3 :
    /\ Len(req[r].files[g]) = 3
    /\ Len(log[r]) > 0
    /\ CallAt(r, Len(log[r])).op = "upload"
    /\ CallAt(r, Len(log[r])).g = g
    /\ CallAt(r, Len(log[r])).i = 2
    /\ ~CallAt(r, Len(log[r])).ok
    /\ counts[r][g] = 1
    /\ status[r] = 500

\* C6: a request whose row was appended answers 200, whatever fails in the
\* formula patcher (its column fetch, its data-body-range fetch, or both
\* formula writes).
C6_PatcherNonFatal ==
  \A r \in Reqs :
    (pc[r] = "done" /\ OkBefore(r, "addRows", Len(log[r]) + 1)) => status[r] = 200

\* both formula writes were rejected and the request answered 200
C6_Witness ==
  \E r \in Reqs :
    /\ \E j \in 1..Len(log[r]) :
         CallAt(r, j).op = "patchFormulas" /\ ~CallAt(r, j).ok
    /\ \E j \in 1..Len(log[r]) :
         CallAt(r, j).op = "patchFormulasLocal" /\ ~CallAt(r, j).ok
    /\ status[r] = 200

\* the calls of a request that are the same call made again
SameCall(c, d) == c.op = d.op /\ c.g = d.g /\ c.i = d.i

\* C7: a request makes each call at most once (token, folder, each file's
\* upload, the column fetch, add-rows, and the patcher's two reads); the
\* formula write is made at most twice, the second time with the alternate
\* payload field exactly when the first was rejected.
C7_NoRetryButLocale ==
  \A r \in Reqs :
    /\ \A j, k \in 1..Len(log[r]) : SameCall(CallAt(r, j), CallAt(r, k)) => j = k
    /\ \A j \in 1..Len(log[r]) :
         CallAt(r, j).op = "patchFormulasLocal" =>
           /\ j > 1
           /\ CallAt(r, j - 1).op = "patchFormulas"
           /\ ~CallAt(r, j - 1).ok
    /\ \A j \in 1..Len(log[r]) :
         (CallAt(r, j).op = "patchFormulas" /\ ~CallAt(r, j).ok /\ pc[r] = "done") =>
           (j < Len(log[r]) /\ CallAt(r, j + 1).op = "patchFormulasLocal")

\* a rejected formula write was followed by the alternate one
C7_Witness ==
  \E r \in Reqs : \E j \in 2..Len(log[r]) :
    /\ CallAt(r, j).op = "patchFormulasLocal"
    /\ CallAt(r, j).ok
    /\ ~CallAt(r, j - 1).ok
    /\ status[r] = 200

-----------------------------------------------------------------------------
(* Properties of the remote table under concurrent submissions and edits *)

\* C4: whenever a request issues its add-rows call, the row it sends is as
\* wide as the table is at that moment, whatever other actors did to the
\* columns since the request fetched them.
C4_RowWidthIsLive ==
  \A r \in Reqs : \A j \in 1..Len(log[r]) :
    CallAt(r, j).op = "addRows" => CallAt(r, j).w = CallAt(r, j).live

\* C5: under any interleaving of the submissions in flight (the columns of
\* the table being left alone), every accepted formula write of a
\* submission lands on the MailCondition cell of the row that the same
\* submission appended.
C5_PatchHitsOwnRow ==
  edits = 0 =>
    \A p \in patches : p.rowOwner = p.by /\ p.header = "MailCondition"

\* the rows of the table that request r appended
RowsOf(r) == {k \in 1..Len(tableRows) : tableRows[k].by = r}

\* the cells request r sent for the columns it fetched under header h
SentUnder(row, h) ==
  {row.sent[c] : c \in {c \in 1..Len(row.fetched) : row.fetched[c] = h}}

\* C8: under any interleaving each request appends at most one row, and
\* exactly one when it answers 200; that row carries the request's own
\* identifier, folder link and upload counts; the folder of a request was
\* created by it, and every upload of a request goes into that folder.
C8_OwnRowOwnFolder ==
  \A r \in Reqs :
    /\ Cardinality(RowsOf(r)) <= 1
    /\ status[r] = 200 => Cardinality(RowsOf(r)) = 1
    /\ \A k \in RowsOf(r) :
         /\ Len(tableRows[k].sent) = Len(tableRows[k].fetched)
         /\ SentUnder(tableRows[k], "ID") \subseteq {readableId[r]}
         /\ SentUnder(tableRows[k], "FolderLink") \subseteq {folder[r].webUrl.s}
         /\ SentUnder(tableRows[k], "VisitingCardCount")
              \subseteq {NumberToString(Len(req[r].files[1]))}
         /\ SentUnder(tableRows[k], "BoothPhotoCount")
              \subseteq {NumberToString(Len(req[r].files[2]))}
         /\ SentUnder(tableRows[k], "CatalogueCount")
              \subseteq {NumberToString(Len(req[r].files[3]))}
    /\ folder[r].id # 0 =>
         /\ folders[folder[r].id].by = r
         /\ folder[r].webUrl = folders[folder[r].id].webUrl
    /\ \A j \in 1..Len(log[r]) :
         CallAt(r, j).op = "upload" =>
           /\ CallAt(r, j).fid = folder[r].id
           /\ folders[CallAt(r, j).fid].by = r

\* two submissions with different identifiers, one with a file and one
\* without, both answered 200 and each has its row
C8_Witness ==
  \E r1, r2 \in Reqs :
    /\ r1 # r2
    /\ status[r1] = 200 /\ status[r2] = 200
    /\ readableId[r1] # readableId[r2]
    /\ Len(req[r1].files[1]) = 1 /\ Len(req[r2].files[1]) = 0
    /\ \E k1 \in RowsOf(r1), k2 \in RowsOf(r2) :
         /\ k2 < k1
         /\ SentUnder(tableRows[k1], "ID") = {readableId[r1]}
         /\ SentUnder(tableRows[k2], "ID") = {readableId[r2]}

\* the table's columns did not change between request r's column fetch and
\* its call at position j
FetchedAtVersion(r, j) ==
  \E k \in 1..(j - 1) :
    /\ CallAt(r, k).op = "columns" /\ CallAt(r, k).ok
    /\ CallAt(r, k).ver = CallAt(r, j).ver

\* row b was built on the columns of row a plus one unmapped column at pos
AddedUnmapped(a, b, pos) ==
  /\ pos \in 1..Len(tableRows[b].fetched)
  /\ tableRows[b].fetched[pos] \notin DOMAIN headerToRecordKey
  /\ tableRows[a].fetched = RemoveAt(tableRows[b].fetched, pos)

\* C10: when an unmapped column is added to the table between two
\* submissions, the later one is not rejected for its row's width, its row
\* has one more value than the earlier one's, and its cell for the unmapped
\* column is the empty string.
C10_SchemaTolerance ==
  /\ \A r \in Reqs : \A j \in 1..Len(log[r]) :
       (CallAt(r, j).op = "addRows" /\ FetchedAtVersion(r, j)) =>
         CallAt(r, j).w = CallAt(r, j).live
  /\ \A a, b \in 1..Len(tableRows) : \A pos \in 1..Len(tableRows[b].fetched) :
       (a < b /\ tableRows[a].by # 0 /\ AddedUnmapped(a, b, pos)) =>
         /\ Len(tableRows[b].sent) = Len(tableRows[a].sent) + 1
         /\ tableRows[b].sent[pos] = <<>>

\* a submission appended its row, then the column Notes was added, then a
\* second submission appended its row: both answered 200
C10_Witness ==
  \E a, b \in 1..Len(tableRows) :
    /\ a < b
    /\ tableRows[a].by # 0 /\ tableRows[b].by # 0
    /\ \E pos \in 1..Len(tableRows[b].fetched) : AddedUnmapped(a, b, pos)
    /\ status[tableRows[a].by] = 200 /\ status[tableRows[b].by] = 200
    /\ Len(tableRows[b].sent) = Len(InitCols) + 1

-----------------------------------------------------------------------------
(* The row mapper on its own: any column list, any record *)

\* headers of the column lists: mapped ones, 'Status Mail' whose key
\* differs from the header, and Notes, which the mapping does not know
RowHeaders == {"ID", "Status Mail", "VisitingCardCount", "Materials", "FolderLink",
               "Notes"}

\* a record as the handler builds it, and one with an array, an undefined
\* value, absent keys and a key (Notes) that is no record key of the mapping
SampleRecords ==
  {BuildRecord([companyName |-> Str(<<"A", "c", "m", "e", " ", "C", "o", "r", "p">>), gbContact |-> Str(<<"M", "r", ".", " ", "T", "e", "d">>)],
               MakeReadableId(<<"2", "0", "2", "6", "1", "1", "0", "2", "1", "2", "0", "0", "0", "0">>, <<"1", "A", "2", "B", "3", "C">>),
               NewFolder(7, <<"A", "c", "m", "e">>, 1), <<0, 12, 3>>, IsoTime),
   [Materials |-> Arr(<<<<"w", "o", "o", "d">>, <<"s", "t", "e", "e", "l">>>>), FolderLink |-> Undefined,
    VisitingCardCount |-> Num(0), StatusMail |-> Str(<<"s", "e", "n", "t">>),
    Notes |-> Str(<<"z", "z">>)]}

RowInputs ==
  {[cols |-> c, record |-> rec] : c \in SeqsUpTo(RowHeaders, MaxCols),
                                  rec \in SampleRecords}

NoRow == [done |-> FALSE, row |-> <<>>]

\* rowValues = colNames.map(...) on the chosen input
ApplyBuildRow ==
  /\ ~fnOut.done
  /\ fnOut' = [done |-> TRUE, row |-> BuildRow(fnIn.cols, fnIn.record)]
  /\ UNCHANGED fnIn
  /\ UNCHANGED reqVars
  /\ UNCHANGED remoteVars

InitRow ==
  /\ InitRequests
  /\ InitRemote
  /\ fnIn \in RowInputs
  /\ fnOut = NoRow

NextRow == ApplyBuildRow

SpecRow == InitRow /\ [][NextRow]_vars

\* the cell is the string form of the value: the string itself, the
\* decimal digits of a number, the elements of an array joined by ', '
IsStringOf(cell, v) ==
  CASE v.k = "str" -> cell = v.s
    [] v.k = "num" -> /\ cell # <<>>
                      /\ \A k \in 1..Len(cell) : cell[k] \in Digits
                      /\ Len(cell) > 1 => cell[1] # "0"
                      /\ ParseInt(cell) = v.n
    [] v.k = "arr" -> cell = JoinComma(v.a)
    [] OTHER -> FALSE

\* the record key the Header-to-Field Mapping gives for a header
MappedKey(h) == IF h = "Status Mail" THEN "StatusMail" ELSE h

\* C9: the row has one value per fetched column, in the fetched order; the
\* value under a header is the string form of the record field the header
\* maps to, and the empty string when the header is not in the mapping or
\* the record has no value under the mapped key.
C9_RowAlignedToColumns ==
  fnOut.done =>
    /\ Len(fnOut.row) = Len(fnIn.cols)
    /\ \A k \in 1..Len(fnIn.cols) :
         LET h == fnIn.cols[k]
             rec == fnIn.record
         IN  IF /\ h \in Headers27
                /\ MappedKey(h) \in DOMAIN rec
                /\ rec[MappedKey(h)].k # "undef"
             THEN IsStringOf(fnOut.row[k], rec[MappedKey(h)])
             ELSE fnOut.row[k] = <<>>

\* a row built for an unmapped column whose name is a key of the record, a
\* count of 0, and a mapped column the record has no value for
C9_Witness ==
  /\ fnOut.done
  /\ fnIn.cols = <<"Notes", "VisitingCardCount", "ID">>
  /\ "Notes" \in DOMAIN fnIn.record
  /\ fnOut.row = <<<<>>, <<"0">>, <<>>>>

-----------------------------------------------------------------------------
(* One submission against the table as deployed: a column per header of the *)
(* Header-to-Field Mapping, in the mapping's order                          *)

FullCols ==
  <<"ID", "FairName", "CompanyName", "ContactPerson", "ContactEmail", "MobileNumber",
    "Designation", "KeyProductCategory", "CompanyType", "Materials", "FullAddress",
    "CompanyLocation", "City", "Country", "ProvinceState", "NearestAirport",
    "NearestTrain", "GlobalBaseContact", "GlobalBaseContactEmail",
    "VisitingCardCount", "BoothPhotoCount", "CatalogueCount", "Message",
    "FolderLink", "Timestamp", "Status Mail", "MailCondition">>

InitFull ==
  /\ InitRequests
  /\ tableCols = FullCols
  /\ tableRows = [k \in 1..InitRowCount |-> OldRow(FullCols)]
  /\ folders = <<>>
  /\ patches = {}
  /\ edits = 0
  /\ InitFn

SpecFull == InitFull /\ [][NextSolo]_vars

\* C11: a 200 response carries ok, the identifier generated for the request,
\* the link of the folder the request created, and the three counts; each
\* count is the number of files the form sent in that group (0 for a group
\* without files); the request appended a row, the row's ID is the
\* response's id and the row's count cells are the decimal strings of the
\* response's counts.
C11_ResponseContent ==
  \A r \in Reqs :
    status[r] = 200 =>
      /\ resBody[r].ok
      /\ resBody[r].id = readableId[r]
      /\ Len(resBody[r].id) = 26
      /\ folder[r].id \in 1..Len(folders)
      /\ folders[folder[r].id].by = r
      /\ resBody[r].folder = folders[folder[r].id].webUrl
      /\ resBody[r].folder.k = "str"
      /\ resBody[r].counts.visitingCard = Len(req[r].files[1])
      /\ resBody[r].counts.boothPhotos = Len(req[r].files[2])
      /\ resBody[r].counts.catalogue = Len(req[r].files[3])
      /\ RowsOf(r) # {}
      /\ \A k \in RowsOf(r) :
           /\ SentUnder(tableRows[k], "ID") \subseteq {resBody[r].id}
           /\ SentUnder(tableRows[k], "FolderLink") \subseteq {resBody[r].folder.s}
           /\ SentUnder(tableRows[k], "VisitingCardCount")
                \subseteq {NumberToString(resBody[r].counts.visitingCard)}
           /\ SentUnder(tableRows[k], "BoothPhotoCount")
                \subseteq {NumberToString(resBody[r].counts.boothPhotos)}
           /\ SentUnder(tableRows[k], "CatalogueCount")
                \subseteq {NumberToString(resBody[r].counts.catalogue)}

\* a form with one visiting card, two booth photos and no catalogue was
\* answered 200 with counts 1, 2, 0, and its row holds "1", "2", "0"
C11_Witness ==
  \E r \in Reqs : \E k \in RowsOf(r) :
    /\ status[r] = 200
    /\ Len(req[r].files[1]) = 1 /\ Len(req[r].files[2]) = 2
    /\ resBody[r].counts = [visitingCard |-> 1, boothPhotos |-> 2, catalogue |-> 0]
    /\ SentUnder(tableRows[k], "ID") = {resBody[r].id}
    /\ SentUnder(tableRows[k], "VisitingCardCount") = {<<"1">>}
    /\ SentUnder(tableRows[k], "BoothPhotoCount") = {<<"2">>}
    /\ SentUnder(tableRows[k], "CatalogueCount") = {<<"0">>}

\* the folders request r created
FoldersOf(r) == {k \in 1..Len(folders) : folders[k].by = r}

\* C12: when the credential exchange gives no token, the token call is the
\* request's only external call: the request created no folder, uploaded no
\* file, appended no row, wrote no formula, and it answers 500.
C12_NoTokenNoCall ==
  \A r \in Reqs :
    (Len(log[r]) > 0 /\ CallAt(r, 1).op = "token" /\ ~CallAt(r, 1).ok) =>
      /\ Len(log[r]) = 1
      /\ FoldersOf(r) = {}
      /\ folder[r] = NoFolder
      /\ counts[r] = <<0, 0, 0>>
      /\ RowsOf(r) = {}
      /\ \A p \in patches : p.by # r
      /\ pc[r] = "done"
      /\ status[r] = 500
      /\ resBody[r] = ErrorBody

\* a form with files whose token call failed: answered 500, drive empty
C12_Witness ==
  \E r \in Reqs :
    /\ log[r] = <<Call("token", FALSE)>>
    /\ req[r].files[1] # <<>>
    /\ status[r] = 500
    /\ folders = <<>>
    /\ Len(tableRows) = InitRowCount

\* request r's column fetch at position j gave it no column: the call was
\* rejected, or its answer held an empty list
NoColumnsAt(r, j) ==
  /\ CallAt(r, j).op = "columns"
  /\ ~CallAt(r, j).ok \/ colNames[r] = <<>>

\* C13: when the column fetch of appendRow fails or returns an empty list,
\* it is the request's last external call (no add-rows call, no second
\* fetch), the request appended no row and answers 500, and the folder it
\* created still exists and holds every file the form sent.
C13_NoColumnsNoRow ==
  \A r \in Reqs : \A j \in 1..Len(log[r]) :
    NoColumnsAt(r, j) =>
      /\ j = Len(log[r])
      /\ \A k \in 1..(j - 1) : CallAt(r, k).op \notin {"columns", "addRows"}
      /\ RowsOf(r) = {}
      /\ pc[r] = "done"
      /\ status[r] = 500
      /\ folder[r].id \in FoldersOf(r)
      /\ \A g \in 1..3 : \A i \in 1..Len(req[r].files[g]) :
           SafeName(req[r].files[g][i]) \in folders[folder[r].id].files

\* the column list came back empty after two files were uploaded: 500, the
\* folder and its file are still in the drive
C13_Witness ==
  \E r \in Reqs :
    /\ Len(log[r]) > 0
    /\ CallAt(r, Len(log[r])) = Call("columns", TRUE)
    /\ colNames[r] = <<>>
    /\ counts[r][1] + counts[r][2] + counts[r][3] = 2
    /\ status[r] = 500
    /\ folders[folder[r].id].files # {}
    /\ Len(tableRows) = InitRowCount

\* the external calls the handler can make
HandlerOps ==
  {"token", "folder", "upload", "columns", "addRows", "pColumns", "pBodyRange",
   "patchFormulas", "patchFormulasLocal"}

\* C14: a request makes at most one folder-create call; every upload of a
\* request goes into the folder that request created; no call of a request
\* is a delete, and nothing is removed after a failure: whatever the
\* request's outcome, the folder it created is in the drive and holds every
\* file whose upload was accepted.
C14_FolderLifecycle ==
  \A r \in Reqs :
    /\ Cardinality({j \in 1..Len(log[r]) : CallAt(r, j).op = "folder"}) <= 1
    /\ Cardinality(FoldersOf(r)) <= 1
    /\ \A j \in 1..Len(log[r]) :
         LET c == CallAt(r, j) IN
           /\ c.op \in HandlerOps
           /\ (c.op = "folder" /\ c.ok) =>
                /\ FoldersOf(r) = {folder[r].id}
                /\ folders[folder[r].id].id = folder[r].id
           /\ c.op = "upload" =>
                /\ c.fid \in FoldersOf(r)
                /\ c.ok => SafeName(req[r].files[c.g][c.i]) \in folders[c.fid].files
    /\ \A k \in FoldersOf(r) :
         Cardinality(folders[k].files) <=
           Cardinality({j \in 1..Len(log[r]) :
                          CallAt(r, j).op = "upload" /\ CallAt(r, j).ok})

\* two submissions, each with a file uploaded into its own folder; the
\* add-rows call of one was rejected and it answered 500: its folder and
\* file are still in the drive
C14_Witness ==
  \E r1, r2 \in Reqs :
    /\ r1 # r2
    /\ status[r1] = 500
    /\ \E j \in 1..Len(log[r1]) : CallAt(r1, j).op = "addRows" /\ ~CallAt(r1, j).ok
    /\ FoldersOf(r1) # {} /\ FoldersOf(r2) # {}
    /\ folder[r1].id # folder[r2].id
    /\ folders[folder[r1].id].files # {}
    /\ folders[folder[r2].id].files # {}

\* 'FORM_', 14 digits, '_', 6 characters none of which is a lower-case letter
WellFormedId(id) ==
  /\ Len(id) = 26
  /\ SubSeq(id, 1, 5) = <<"F", "O", "R", "M", "_">>
  /\ \A k \in 6..19 : id[k] \in Digits
  /\ id[20] = "_"
  /\ \A k \in 21..26 : id[k] \in Range(UpperLetters) \cup Digits

\* the time part of an identifier
TimePart(id) == SubSeq(id, 6, 19)

\* the identifiers generated so far are well formed
IdsWellFormed ==
  \A r \in Reqs : readableId[r] # <<>> => WellFormedId(readableId[r])

\* C15: every generated identifier is FORM_ + 14 digits + _ + 6 upper-case
\* characters, and two submissions whose identifiers carry the same time
\* part have different identifiers.
C15_IdFormatAndDistinct ==
  /\ IdsWellFormed
  /\ \A r1, r2 \in Reqs :
       (/\ r1 # r2
        /\ readableId[r1] # <<>> /\ readableId[r2] # <<>>
        /\ TimePart(readableId[r1]) = TimePart(readableId[r2])) =>
         readableId[r1] # readableId[r2]

-----------------------------------------------------------------------------
(* The record builder on its own: any subset of form fields *)

\* the form fields that vary, the others being absent
VariedFields == {"fairName", "companyName", "materials", "gbContact"}

\* what the form parser gives for a field: nothing when the field is
\* absent, a string (possibly empty) when it was sent once, an array of
\* strings when it was sent more than once
FieldValues ==
  {Undefined, Str(<<>>), Str(<<"T", "e", "d">>),
   Arr(<<<<"w", "o", "o", "d">>, <<"s", "t", "e", "e", "l">>>>)}

\* req.body holds a key only for a field the form sent
BodyOf(f) ==
  [key \in {key \in VariedFields : f[key].k # "undef"} |-> f[key]]

RecordInputs == {BodyOf(f) : f \in [VariedFields -> FieldValues]}

NoRecord == [done |-> FALSE, thrown |-> FALSE, record |-> <<>>]

\* const record = {...} on the chosen body
ApplyBuildRecord ==
  /\ ~fnOut.done
  /\ fnOut' =
       IF RecordThrows(fnIn)
       THEN [done |-> TRUE, thrown |-> TRUE, record |-> <<>>]
       ELSE [done |-> TRUE, thrown |-> FALSE,
             record |-> BuildRecord(fnIn, MakeReadableId(CompactTime(IsoTime),
                                                        <<"1", "A", "2", "B", "3", "C">>),
                                    NewFolder(7, <<"A", "c", "m", "e">>, 1),
                                    <<1, 0, 2>>, IsoTime)]
  /\ UNCHANGED fnIn
  /\ UNCHANGED reqVars
  /\ UNCHANGED remoteVars

InitRecord ==
  /\ InitRequests
  /\ InitRemote
  /\ fnIn \in RecordInputs
  /\ fnOut = NoRecord

NextRecord == ApplyBuildRecord

SpecRecord == InitRecord /\ [][NextRecord]_vars

\* the record fields copied from the form are never undefined: each is the
\* submitted value, and the empty string when the form field is absent
CopiedOrEmpty ==
  (fnOut.done /\ ~fnOut.thrown) =>
    \A key \in DOMAIN CopiedFields :
      LET sent == Get(fnIn, CopiedFields[key])
          v == fnOut.record[key]
      IN  /\ v.k # "undef"
          /\ sent.k = "undef" => v = Str(<<>>)
          /\ sent.k # "undef" => v = sent

-----------------------------------------------------------------------------
(* The folder namer on its own: any label *)

\* a word character, the two other characters the name keeps, white space,
\* and a character the name does not keep
LabelChars == {"a", ".", " ", "#"}

\* n word characters
Fill(n) == [k \in 1..n |-> "a"]

\* labels around the 60-character limit, with and without white space to
\* trim and a character to replace
LongLabels ==
  {pre \o Fill(n) \o suf : pre \in {<<>>, <<" ">>, <<"#">>},
                           n \in (MaxLabelLen - 4)..MaxLabelLen,
                           suf \in {<<>>, <<" ">>, <<"#", "b">>}}

\* req.body.companyName: absent, or a string
Labels ==
  {Undefined} \cup {Str(t) : t \in SeqsUpTo(LabelChars, ShortLabelLen) \cup LongLabels}

NoName == [done |-> FALSE, safeTail |-> <<>>, folderName |-> <<>>]

\* the identifier the folder names are built on
NamerId == MakeReadableId(CompactTime(IsoTime), <<"1", "A", "2", "B", "3", "C">>)

\* const safeTail = ...; const folderName = ...
ApplyFolderName ==
  /\ ~fnOut.done
  /\ fnOut' = [done |-> TRUE, safeTail |-> SafeTail(fnIn),
               folderName |-> FolderName(NamerId, fnIn)]
  /\ UNCHANGED fnIn
  /\ UNCHANGED reqVars
  /\ UNCHANGED remoteVars

InitNamer ==
  /\ InitRequests
  /\ InitRemote
  /\ fnIn \in Labels
  /\ fnOut = NoName

NextNamer == ApplyFolderName

SpecNamer == InitNamer /\ [][NextNamer]_vars

\* the characters a folder name keeps
KeptChars == WordChars \cup {".", " "}

\* C17: the sanitized label holds only word characters, dots and spaces,
\* and is at most 60 characters long.
C17_SafeTailCharsAndLength ==
  fnOut.done =>
    /\ \A k \in 1..Len(fnOut.safeTail) : fnOut.safeTail[k] \in KeptChars
    /\ Len(fnOut.safeTail) <= 60

\* a label of more than 60 characters that starts with '#' was cut to 60
\* characters, its '#' replaced
C17_Witness ==
  /\ fnOut.done
  /\ Len(fnIn.s) > 60
  /\ fnIn.s[1] = "#"
  /\ Len(fnOut.safeTail) = 60
  /\ fnOut.safeTail[1] = "_"

\* the label as a string, trimmed
TrimmedLabel == Trim(OrEmpty(fnIn).s)

\* the folder name is the identifier, followed by '_' and the tail when the
\* tail is not empty
NameIsIdPlusTail(tail) ==
  fnOut.folderName = IF tail # <<>> THEN NamerId \o <<"_">> \o tail ELSE NamerId

\* C18: the folder name is derived by trimming the label, removing every
\* character outside word characters, dot and space, cutting the result to
\* 60 characters, and appending it to the identifier after an underscore
\* if and only if it is not empty.
C18_NameStripsLabel ==
  fnOut.done =>
    NameIsIdPlusTail(Slice0(SelectSeq(TrimmedLabel, LAMBDA c : c \in KeptChars), 60))

\* C18 amended: the folder name is derived by trimming the label, replacing
\* every character outside word characters, dot and space by an underscore
\* (the length is kept), cutting the result to 60 characters, and appending
\* it to the identifier after an underscore if and only if it is not empty.
C18_NameReplacesInLabel ==
  fnOut.done =>
    LET n == IF Len(TrimmedLabel) < 60 THEN Len(TrimmedLabel) ELSE 60
        tail == [k \in 1..n |-> IF TrimmedLabel[k] \in KeptChars
                                THEN TrimmedLabel[k] ELSE "_"]
    IN  /\ NameIsIdPlusTail(tail)
        /\ Len(fnOut.folderName) = Len(NamerId) + (IF n = 0 THEN 0 ELSE n + 1)

\* the label ' #a' gave the folder name <id>__a
C18_Witness ==
  /\ fnOut.done
  /\ fnIn.s = <<" ", "#", "a">>
  /\ fnOut.safeTail = <<"_", "a">>
  /\ fnOut.folderName = NamerId \o <<"_", "_", "a">>

-----------------------------------------------------------------------------
(* The email resolver on its own: any contact name *)

\* contact names: a name of the directory in several spellings, names the
\* directory does not hold, and the empty name
BareNames ==
  {<<"T", "e", "d">>, <<"T", "E", "D">>, <<"T", ".", "e", ".", "d">>, <<"A", "m", "j", "a", "d", " ", "A", "b", "b", "a", "s">>,
   <<"j", "a", "c", "k">>, <<"Z", "e", "d">>, <<"c", "o", "n", "s", "t", "r", "u", "c", "t", "o", "r">>,
   <<"_", "_", "p", "r", "o", "t", "o", "_", "_">>, <<>>}

NamePrefixes == {<<>>, <<"M", "r", ".", " ">>, <<" ", "m", "r", " ", " ">>, <<"M", "s", " ">>}

NameSuffixes == {<<>>, <<" ", "S", "m", "i", "t", "h">>, <<" ">>}

ContactNames ==
  {pre \o n \o suf : pre \in NamePrefixes, n \in BareNames, suf \in NameSuffixes}

NoEmail == [done |-> FALSE, email |-> Undefined]

\* GlobalBaseContactEmail: getGbEmail(req.body.gbContact || '')
ApplyGetGbEmail ==
  /\ ~fnOut.done
  /\ fnOut' = [done |-> TRUE, email |-> getGbEmail(fnIn)]
  /\ UNCHANGED fnIn
  /\ UNCHANGED reqVars
  /\ UNCHANGED remoteVars

InitEmail ==
  /\ InitRequests
  /\ InitRemote
  /\ fnIn \in ContactNames
  /\ fnOut = NoEmail

NextEmail == ApplyGetGbEmail

SpecEmail == InitEmail /\ [][NextEmail]_vars

\* the directory's email for a normalized name: the entry of the whole
\* name, else the entry of its first token, else the empty string
DirectoryEmail(n) ==
  IF n \in DOMAIN GbMap THEN GbMap[n]
  ELSE IF FirstToken(n) \in DOMAIN GbMap THEN GbMap[FirstToken(n)]
  ELSE <<>>

\* C19: the resolved email is the directory's entry for the normalized
\* contact name (lower-cased, periods removed, a leading 'mr' removed),
\* matched on the whole name and otherwise on its first token, and the
\* empty string when neither is in the directory; 'Mr. Ted' resolves to
\* ted@globalbasesourcing.com.
C19_EmailFromDirectory ==
  fnOut.done =>
    /\ fnOut.email = Str(DirectoryEmail(normalizeName(fnIn)))
    /\ fnIn = <<"M", "r", ".", " ", "T", "e", "d">> =>
         fnOut.email.s = <<"t", "e", "d">> \o EmailDomain

\* the names of the directory resolve as the directory says
DirectoryNamesResolve ==
  fnOut.done =>
    (DirectoryEmail(normalizeName(fnIn)) # <<>> =>
       fnOut.email = Str(DirectoryEmail(normalizeName(fnIn))))

-----------------------------------------------------------------------------
(* The formula patcher's target cell *)

\* no column of the table was edited since request r fetched the columns
\* in appendRow: the patcher's reads and its write saw one table
NoEditSinceFetch(r) ==
  \E j \in 1..Len(log[r]) :
    /\ CallAt(r, j).op = "columns" /\ CallAt(r, j).ok
    /\ CallAt(r, j).ver = edits

\* the zero-based positions of the columns named MailCondition
MailPositions == {k - 1 : k \in {k \in 1..Len(tableCols) : tableCols[k] = "MailCondition"}}

\* C20: when the table does not change while the patcher of a submission
\* runs (the submission is the only one, and no column is edited), the
\* cell it writes is in the MailCondition column and in the last data row:
\* its column number is the start column of the data body range plus the
\* zero-based index of MailCondition, its row number the start row of the
\* range plus rowCount minus 1.
C20_TargetCell ==
  \A p \in patches :
    NoEditSinceFetch(p.by) =>
      LET body == DataBodyRange(tableCols, tableRows)
          startCol == TableFirstCol
          startRow == TableHeaderRow + 1
      IN  /\ p.header = "MailCondition"
          /\ p.rowOwner = p.by
          /\ p.row = TableHeaderRow + Len(tableRows)
          /\ (p.col - startCol) \in MailPositions
          /\ p.col = startCol + idxMail[p.by]
          /\ p.row = startRow + body.rowCount - 1

\* a column was added at the left of the table before the submission: the
\* formula went to the fifth column of the table, a two-letter column of
\* the sheet, in the submission's own row
C20_Witness ==
  \E p \in patches :
    /\ NoEditSinceFetch(p.by)
    /\ tableCols[1] = "Notes"
    /\ idxMail[p.by] = Len(InitCols)
    /\ p.col = TableFirstCol + Len(InitCols)
    /\ Len(target[p.by].letters) = 2
    /\ p.row = TableHeaderRow + InitRowCount + 1
    /\ p.header = "MailCondition"
    /\ p.rowOwner = p.by

-----------------------------------------------------------------------------
(* The column-letter helpers on their own: any column number *)

ColumnNumbers == 1..MaxColumn

NoLetters == [done |-> FALSE, letters |-> <<>>, number |-> 0]

\* colNumberToLetters(n), then colLettersToNumber of the result
ApplyColumnLetters ==
  /\ ~fnOut.done
  /\ fnOut' = [done |-> TRUE, letters |-> colNumberToLetters(fnIn),
               number |-> colLettersToNumber(colNumberToLetters(fnIn))]
  /\ UNCHANGED fnIn
  /\ UNCHANGED reqVars
  /\ UNCHANGED remoteVars

InitLetters ==
  /\ InitRequests
  /\ InitRemote
  /\ fnIn \in ColumnNumbers
  /\ fnOut = NoLetters

NextLetters == ApplyColumnLetters

SpecLetters == InitLetters /\ [][NextLetters]_vars

\* C21: for every column number n >= 1, colNumberToLetters(n) is a
\* non-empty word of upper-case letters and colLettersToNumber gives n
\* back from it; column 26 is "Z" and column 27 is "AA".
C21_LettersInverse ==
  fnOut.done =>
    /\ fnOut.number = fnIn
    /\ fnOut.letters # <<>>
    /\ \A k \in 1..Len(fnOut.letters) : fnOut.letters[k] \in Range(UpperLetters)
    /\ fnIn = 26 => fnOut.letters = <<"Z">>
    /\ fnIn = 27 => fnOut.letters = <<"A", "A">>
    /\ fnIn <= 26 => Len(fnOut.letters) = 1
    /\ (26 < fnIn /\ fnIn <= 702) => Len(fnOut.letters) = 2
    /\ 702 < fnIn => Len(fnOut.letters) >= 3

\* column 703, the first three-letter column, gave "AAA" and came back
C21_Witness ==
  /\ fnOut.done
  /\ fnIn = 703
  /\ fnOut.letters = <<"A", "A", "A">>
  /\ fnOut.number = 703

-----------------------------------------------------------------------------
(* The formula patcher's early returns *)

\* request r made a formula write
WroteFormula(r) == \E j \in 1..Len(log[r]) : CallAt(r, j).op \in PatchOps

\* the answer to request r's data body range fetch at position j held no
\* address, no row or no column
EmptyBodyAt(r, j) ==
  /\ CallAt(r, j).op = "pBodyRange" /\ CallAt(r, j).ok
  /\ ~CallAt(r, j).addr \/ CallAt(r, j).rows = 0 \/ CallAt(r, j).cols = 0

\* C22: when the patcher finds no column named MailCondition, or the data
\* body range it reads has no address, no row or no column, that read is
\* the request's last external call: no formula write is made, and the
\* request answers 200.
C22_PatcherSkips ==
  \A r \in Reqs :
    /\ \A j \in 1..Len(log[r]) :
         (CallAt(r, j).op = "pColumns" /\ CallAt(r, j).ok /\ idxMail[r] < 0) =>
           /\ j = Len(log[r])
           /\ pc[r] = "done" /\ status[r] = 200
    /\ \A j \in 1..Len(log[r]) :
         EmptyBodyAt(r, j) =>
           /\ j = Len(log[r])
           /\ target[r] = NoTarget
           /\ pc[r] = "done" /\ status[r] = 200
    /\ (/\ NoEditSinceFetch(r)
        /\ \A k \in 1..Len(tableCols) : tableCols[k] # "MailCondition"
        /\ pc[r] = "done" /\ RowsOf(r) # {}) =>
         /\ ~WroteFormula(r)
         /\ \A p \in patches : p.by # r
         /\ status[r] = 200

\* the data body range came back without rows: no formula write, 200
C22_Witness ==
  \E r \in Reqs :
    /\ Len(log[r]) > 0
    /\ EmptyBodyAt(r, Len(log[r]))
    /\ CallAt(r, Len(log[r])).addr /\ CallAt(r, Len(log[r])).rows = 0
    /\ RowsOf(r) # {}
    /\ patches = {}
    /\ status[r] = 200

\* the column MailCondition was removed before the submission: its patcher
\* stopped after the column list, and it answered 200
NoMailColumnReached ==
  \E r \in Reqs :
    /\ NoEditSinceFetch(r)
    /\ \A k \in 1..Len(tableCols) : tableCols[k] # "MailCondition"
    /\ Len(log[r]) > 0
    /\ CallAt(r, Len(log[r])).op = "pColumns" /\ CallAt(r, Len(log[r])).ok
    /\ status[r] = 200

-----------------------------------------------------------------------------
(* The response and the appended row *)

\* request r's add-rows call was accepted
AddRowsSucceeded(r) == OkBefore(r, "addRows", Len(log[r]) + 1)

\* the rows of the table that submissions appended
AppendedRows == {k \in 1..Len(tableRows) : tableRows[k].by # 0}

\* C23: a request that has answered answers 200 if and only if its add-rows
\* call succeeded; a request that answers 500 has appended no row; in
\* every state the rows appended by the submissions are as many as the
\* requests whose add-rows call succeeded, one row for each.
C23_OkIffRowAppended ==
  /\ \A r \in Reqs :
       /\ pc[r] = "done" => (status[r] = 200 <=> AddRowsSucceeded(r))
       /\ status[r] \in {0, 200, 500}
       /\ status[r] = 200 => AddRowsSucceeded(r)
       /\ status[r] = 500 => RowsOf(r) = {}
       /\ Cardinality(RowsOf(r)) = IF AddRowsSucceeded(r) THEN 1 ELSE 0
  /\ Cardinality(AppendedRows) = Cardinality({r \in Reqs : AddRowsSucceeded(r)})
  /\ Len(tableRows) = InitRowCount + Cardinality(AppendedRows)

\* one submission answered 200 and has its row, the other's add-rows call
\* was rejected: it answered 500 and the table holds one appended row
C23_Witness ==
  \E r1, r2 \in Reqs :
    /\ status[r1] = 200 /\ status[r2] = 500
    /\ AddRowsSucceeded(r1)
    /\ \E j \in 1..Len(log[r2]) : CallAt(r2, j).op = "addRows" /\ ~CallAt(r2, j).ok
    /\ Cardinality(AppendedRows) = 1
    /\ RowsOf(r1) # {}

-----------------------------------------------------------------------------
(* One submission whose files have names that may coincide *)

\* originalname of the uploaded files: two names that differ only in a
\* character the sanitizer replaces, and a third one
UploadNames == {<<"a", "#">>, <<"a", "?">>, <<"b">>}

NextFiles ==
  \/ Start(1, {[message |-> Str(<<>>)]}, FileGroups(UploadNames, MaxNamedFiles))
  \/ Step(1)

SpecFiles == Init /\ [][NextFiles]_vars

\* the files of request r's form, as <<group, index>>
FilesOf(r) == {<<g, i>> : g \in 1..3, i \in 1..3} \cap
              {f \in (1..3) \X (1..3) : f[2] <= Len(req[r].files[f[1]])}

\* the names request r's files are stored under
StoredNames(r) == {SafeName(req[r].files[f[1]][f[2]]) : f \in FilesOf(r)}

\* the sum of the three counts of the response
CountSum(r) ==
  resBody[r].counts.visitingCard + resBody[r].counts.boothPhotos
    + resBody[r].counts.catalogue

\* C24: after a request answered 200, the folder it created holds as many
\* files as the sum of the three counts of the response, whatever the
\* names of the uploaded files.
C24_FolderHoldsCountedFiles ==
  \A r \in Reqs :
    status[r] = 200 =>
      Cardinality(folders[folder[r].id].files) = CountSum(r)

\* when the sanitized names of a form's files differ from each other, the
\* folder holds one file for each
DistinctNamesAllKept ==
  \A r \in Reqs :
    (status[r] = 200 /\ Cardinality(StoredNames(r)) = Cardinality(FilesOf(r))) =>
      Cardinality(folders[folder[r].id].files) = CountSum(r)

-----------------------------------------------------------------------------
(* Termination: every external call returns *)

\* an awaited call of a running handler eventually returns, with success
\* or with failure, and the handler then runs to its next await
SpecSoloLive == Init /\ [][NextSolo]_vars /\ WF_vars(Step(1))

\* a request has one response when its handler has ended and none before
OneResponse ==
  \A r \in Reqs :
    /\ responses[r] = IF pc[r] = "done" THEN 1 ELSE 0
    /\ pc[r] = "done" <=> status[r] \in {200, 500}
    /\ pc[r] # "done" => status[r] = 0
    /\ resBody[r].sent <=> pc[r] = "done"

\* C25: a request never has more than one response, has exactly one when
\* its handler has ended, and, every external call returning, a request
\* that arrived eventually gets its response, with status 200 or 500.
C25_OneResponseEventually ==
  /\ []OneResponse
  /\ \A r \in Reqs :
       (pc[r] # "idle") ~>
         (pc[r] = "done" /\ responses[r] = 1 /\ status[r] \in {200, 500})

\* a request with MaxSoloFiles files went through every call, both formula
\* writes were rejected, and it has its one response
C25_Witness ==
  \E r \in Reqs :
    /\ pc[r] = "done"
    /\ responses[r] = 1
    /\ counts[r][1] + counts[r][2] + counts[r][3] = MaxSoloFiles
    /\ Len(log[r]) = MaxSoloFiles + 8
    /\ status[r] = 200

====
